---- MODULE Spec2Model ----
(***************************************************************************)
(* Environment-driven configuration of the e-commerce backend.             *)
(*                                                                         *)
(* src/config.py is executed once, top to bottom, when the module is       *)
(* imported: the class bodies of BaseConfig, DevelopmentConfig,            *)
(* TestingConfig and ProductionConfig read os.environ and compute class    *)
(* attributes.  get_config(name) then selects one of the classes.          *)
(* src/app/__init__.py holds the application factory create_app.           *)
(*                                                                         *)
(* Python strings are modelled as sequences of one-character strings, so   *)
(* that strip/startswith/replace/lower/int are computed character by       *)
(* character.  An Optional[str] is a record [some, val].                   *)
(***************************************************************************)
EXTENDS Integers, Sequences, FiniteSets, TLC

VARIABLES
    env,                \* os.environ: variable name -> Optional[str]
    pc,                 \* position in the import of config.py / in create_app
    BaseConfig,         \* class attributes of BaseConfig
    DevelopmentConfig,  \* class attributes of DevelopmentConfig
    TestingConfig,      \* class attributes of TestingConfig
    ProductionConfig,   \* class attributes of ProductionConfig
    config,             \* the class returned by the last get_config call
    app                 \* the Flask application under construction in create_app

vars == <<env, pc, BaseConfig, DevelopmentConfig, TestingConfig, ProductionConfig, config, app>>

----------------------------------------------------------------------------
(* Bounds of the model. *)

\* Largest number of whitespace characters put on either side of a URL value.
MaxPad == 1

\* Largest number of digits of a numeric environment value.
MaxDigits == 2

----------------------------------------------------------------------------
(* Optional[str] and Python truthiness. *)

None == [some |-> FALSE, val |-> <<>>]

Some(s) == [some |-> TRUE, val |-> s]

\* bool(x) for x: Optional[str]: None and "" are falsy.
Truthy(o) == o.some /\ o.val # <<>>

\* Python's `a or b`: a when a is truthy, else b (whatever b is).
Or(a, b) == IF Truthy(a) THEN a ELSE b

\* os.getenv(key): the value, or None when the variable is not set.
getenv(key) == env[key]

\* os.getenv(key, default): the default only when the variable is not set;
\* a variable set to "" yields "".
getenv_default(key, default) == IF env[key].some THEN env[key].val ELSE default

----------------------------------------------------------------------------
(* str methods. *)

\* Characters str.strip() removes (ASCII whitespace).
Whitespace == {" ", "\t", "\n", "\r", "\f"}

\* s.startswith(prefix)
startswith(s, prefix) ==
    /\ Len(prefix) <= Len(s)
    /\ SubSeq(s, 1, Len(prefix)) = prefix

\* s.strip()
strip(s) ==
    LET nonws == {i \in 1..Len(s) : s[i] \notin Whitespace}
    IN  IF nonws = {} THEN <<>>
        ELSE LET lo == CHOOSE i \in nonws : \A j \in nonws : i <= j
                 hi == CHOOSE i \in nonws : \A j \in nonws : j <= i
             IN  SubSeq(s, lo, hi)

\* s.replace(old, new, 1): the first occurrence of old replaced by new.
replace_first(s, old, new) ==
    LET hits == {i \in 1..(Len(s) - Len(old) + 1) : SubSeq(s, i, i + Len(old) - 1) = old}
    IN  IF hits = {} THEN s
        ELSE LET i == CHOOSE h \in hits : \A k \in hits : h <= k
             IN  SubSeq(s, 1, i - 1) \o new \o SubSeq(s, i + Len(old), Len(s))

UpperChars == <<"A","B","C","D","E","F","G","H","I","J","K","L","M",
                "N","O","P","Q","R","S","T","U","V","W","X","Y","Z">>

LowerChars == <<"a","b","c","d","e","f","g","h","i","j","k","l","m",
                "n","o","p","q","r","s","t","u","v","w","x","y","z">>

\* s.lower()
lower(s) ==
    [i \in 1..Len(s) |->
        IF \E k \in 1..Len(UpperChars) : UpperChars[k] = s[i]
        THEN LowerChars[CHOOSE k \in 1..Len(UpperChars) : UpperChars[k] = s[i]]
        ELSE s[i]]

Digits == <<"0","1","2","3","4","5","6","7","8","9">>

IsDigit(c) == \E k \in 1..Len(Digits) : Digits[k] = c

DigitValue(c) == (CHOOSE k \in 1..Len(Digits) : Digits[k] = c) - 1

RECURSIVE DecimalValue(_)
\* The number written by a sequence of digits and underscores.
DecimalValue(s) ==
    IF s = <<>> THEN 0
    ELSE LET c == s[Len(s)]
             rest == SubSeq(s, 1, Len(s) - 1)
         IN  IF c = "_" THEN DecimalValue(rest)
             ELSE 10 * DecimalValue(rest) + DigitValue(c)

\* int(s) for a str s, base 10: surrounding whitespace is ignored, one sign is
\* allowed, and the rest is digits with single underscores between digits.
\* [ok |-> FALSE] stands for ValueError.
int(s) ==
    LET t == strip(s)
        signed == t # <<>> /\ t[1] \in {"+", "-"}
        body == IF signed THEN SubSeq(t, 2, Len(t)) ELSE t
        wellformed ==
            /\ body # <<>>
            /\ \A i \in 1..Len(body) : IsDigit(body[i]) \/ body[i] = "_"
            /\ body[1] # "_"
            /\ body[Len(body)] # "_"
            /\ \A i \in 1..(Len(body) - 1) : ~(body[i] = "_" /\ body[i + 1] = "_")
    IN  IF ~wellformed THEN [ok |-> FALSE, val |-> 0]
        ELSE [ok |-> TRUE,
              val |-> IF signed /\ t[1] = "-" THEN 0 - DecimalValue(body)
                      ELSE DecimalValue(body)]

----------------------------------------------------------------------------
(* String constants of config.py. *)

PostgresScheme == <<"p","o","s","t","g","r","e","s",":","/","/">>

PostgresqlPsycopg2Scheme ==
    <<"p","o","s","t","g","r","e","s","q","l","+","p","s","y","c","o","p","g","2",":","/","/">>

MysqlScheme == <<"m","y","s","q","l",":","/","/">>

MysqlPymysqlScheme == <<"m","y","s","q","l","+","p","y","m","y","s","q","l",":","/","/">>

\* str(BASE_DIR): the directory holding config.py (here /app).
BASE_DIR == <<"/","a","p","p">>

\* f"sqlite:///{(BASE_DIR / 'instance' / 'ecommerce_dev.db')}"
SqliteFallback ==
    <<"s","q","l","i","t","e",":","/","/","/">> \o BASE_DIR \o
    <<"/","i","n","s","t","a","n","c","e","/",
      "e","c","o","m","m","e","r","c","e","_","d","e","v",".","d","b">>

SqliteMemory == <<"s","q","l","i","t","e",":","/","/","/",":","m","e","m","o","r","y",":">>

DefaultPort == <<"3","3","0","6">>

----------------------------------------------------------------------------
(* _normalize_database_url and _build_mysql_url_from_env. *)

\* _normalize_database_url without the startswith guards: the first
\* occurrence of either scheme is rewritten wherever it stands.
normalize_database_url_anywhere(url) ==
    IF ~Truthy(url) THEN None
    ELSE Some(replace_first(replace_first(strip(url.val), PostgresScheme,
                                          PostgresqlPsycopg2Scheme),
                            MysqlScheme, MysqlPymysqlScheme))

\* _normalize_database_url(url): None for None or "", else the stripped url
\* with a leading postgres:// or mysql:// rewritten.
normalize_database_url(url) ==
    IF ~Truthy(url) THEN None
    ELSE LET u0 == strip(url.val)
             u1 == IF startswith(u0, PostgresScheme)
                   THEN replace_first(u0, PostgresScheme, PostgresqlPsycopg2Scheme)
                   ELSE u0
             u2 == IF startswith(u1, MysqlScheme)
                   THEN replace_first(u1, MysqlScheme, MysqlPymysqlScheme)
                   ELSE u1
         IN  Some(u2)

\* The five fields _build_mysql_url_from_env reads, each through its or-chain.
mysql_user == Or(Or(getenv("MYSQLUSER"), getenv("MYSQL_USER")), getenv("DB_USER"))

mysql_password == Or(Or(getenv("MYSQLPASSWORD"), getenv("MYSQL_PASSWORD")), getenv("DB_PASS"))

mysql_host == Or(Or(getenv("MYSQLHOST"), getenv("MYSQL_HOST")), getenv("DB_HOST"))

mysql_port == Or(Or(getenv("MYSQLPORT"), getenv("MYSQL_PORT")), Some(DefaultPort))

mysql_db == Or(Or(getenv("MYSQLDATABASE"), getenv("MYSQL_DB")), getenv("DB_NAME"))

\* f"mysql+pymysql://{user}:{password}@{host}:{port}/{db}"
format_mysql_url(user, password, host, port, db) ==
    MysqlPymysqlScheme \o user \o <<":">> \o password \o <<"@">> \o host
        \o <<":">> \o port \o <<"/">> \o db

\* _build_mysql_url_from_env with a completeness test that forgets the
\* password and the database.
build_mysql_url_partial ==
    IF ~(Truthy(mysql_user) /\ Truthy(mysql_host))
    THEN None
    ELSE Some(format_mysql_url(mysql_user.val, mysql_password.val, mysql_host.val,
                               mysql_port.val, mysql_db.val))

\* _build_mysql_url_from_env()
build_mysql_url_from_env ==
    IF ~(Truthy(mysql_user) /\ Truthy(mysql_password) /\ Truthy(mysql_host) /\ Truthy(mysql_db))
    THEN None
    ELSE Some(format_mysql_url(mysql_user.val, mysql_password.val, mysql_host.val,
                               mysql_port.val, mysql_db.val))

----------------------------------------------------------------------------
(* The class bodies of config.py, one action per block of statements. *)

\* The keys of SQLALCHEMY_ENGINE_OPTIONS that are numbers ("future" and
\* "pool_pre_ping" are the constant True in every class).
PoolKeys == {"pool_size", "max_overflow", "pool_timeout"}

\* The dict literal with every int() failure replaced by the default.
engine_options_coerced(default_pool_size, default_max_overflow, default_pool_timeout) ==
    LET coerce(key, default) ==
            IF int(getenv_default(key, default)).ok
            THEN int(getenv_default(key, default)).val
            ELSE int(default).val
    IN  [ok |-> TRUE,
         val |-> [pool_size |-> coerce("SQLALCHEMY_POOL_SIZE", default_pool_size),
                  max_overflow |-> coerce("SQLALCHEMY_MAX_OVERFLOW", default_max_overflow),
                  pool_timeout |-> coerce("SQLALCHEMY_POOL_TIMEOUT", default_pool_timeout)]]

\* The dict literal of lines 72-78 and 136-142: three int(os.getenv(name,
\* default)) calls, evaluated in order; any ValueError leaves the class body.
engine_options_from_env(default_pool_size, default_max_overflow, default_pool_timeout) ==
    LET ps == int(getenv_default("SQLALCHEMY_POOL_SIZE", default_pool_size))
        mo == int(getenv_default("SQLALCHEMY_MAX_OVERFLOW", default_max_overflow))
        pt == int(getenv_default("SQLALCHEMY_POOL_TIMEOUT", default_pool_timeout))
    IN  IF ps.ok /\ mo.ok /\ pt.ok
        THEN [ok |-> TRUE,
              val |-> [pool_size |-> ps.val, max_overflow |-> mo.val, pool_timeout |-> pt.val]]
        ELSE [ok |-> FALSE, val |-> <<>>]

\* BaseConfig's defaults, lines 75-77.
base_engine_options == engine_options_from_env(<<"5">>, <<"1","0">>, <<"3","0">>)

\* ProductionConfig's options with BaseConfig's defaults.
production_engine_options_base_defaults ==
    engine_options_from_env(<<"5">>, <<"1","0">>, <<"3","0">>)

\* ProductionConfig's defaults, lines 139-141.
production_engine_options == engine_options_from_env(<<"1","0">>, <<"2","0">>, <<"3","0">>)

\* TestingConfig's literal dict, lines 123-128: no pool_timeout key.
testing_engine_options == [pool_size |-> 1, max_overflow |-> 0]

\* str(60 * 60 * 24) and str(60 * 60 * 24 * 30), lines 82-83.
DefaultAccessExpires == <<"8","6","4","0","0">>

DefaultRefreshExpires == <<"2","5","9","2","0","0","0">>

\* Line 59: _raw_db.
base_raw_db == Or(getenv("DATABASE_URL"), getenv("DATABASE_URI"))

\* Lines 63-64 with the order reversed: the constructed URL is preferred to
\* the direct one.
base_database_url_credentials_first ==
    Or(build_mysql_url_from_env, BaseConfig.DATABASE_URL)

\* Lines 63-64: DATABASE_URL after the attempt to construct it from the
\* MYSQL* variables, which is made only when the normalized URL is falsy.
base_database_url ==
    IF ~Truthy(BaseConfig.DATABASE_URL) THEN build_mysql_url_from_env
    ELSE BaseConfig.DATABASE_URL

\* Line 67: DATABASE_URL or the sqlite file of the instance folder.
base_database_uri(url) == Or(url, Some(SqliteFallback)).val

\* Line 115: DevelopmentConfig.SQLALCHEMY_DATABASE_URI.
development_database_uri == Or(BaseConfig.DATABASE_URL, Some(SqliteFallback)).val

\* Line 122 as a layer over the base resolution: the base URI when the test
\* URI is not set.
testing_database_uri_layered ==
    getenv_default("TEST_DATABASE_URI", BaseConfig.SQLALCHEMY_DATABASE_URI)

\* Line 122: TestingConfig.SQLALCHEMY_DATABASE_URI.
testing_database_uri == getenv_default("TEST_DATABASE_URI", SqliteMemory)

\* Line 135: ProductionConfig.SQLALCHEMY_DATABASE_URI.
production_database_uri ==
    Or(BaseConfig.DATABASE_URL, Some(BaseConfig.SQLALCHEMY_DATABASE_URI)).val

\* class BaseConfig, lines 58-60.
BaseConfigDatabaseUrl ==
    /\ pc = "BaseConfig_database"
    /\ BaseConfig' = [raw_db |-> base_raw_db,
                      DATABASE_URL |-> normalize_database_url(base_raw_db)]
    /\ pc' = "BaseConfig_fallback"
    /\ UNCHANGED <<env, DevelopmentConfig, TestingConfig, ProductionConfig, config, app>>

\* class BaseConfig, lines 62-67.
BaseConfigDatabaseFallback ==
    /\ pc = "BaseConfig_fallback"
    /\ BaseConfig' = [raw_db |-> BaseConfig.raw_db,
                      DATABASE_URL |-> base_database_url,
                      SQLALCHEMY_DATABASE_URI |-> base_database_uri(base_database_url)]
    /\ pc' = "BaseConfig_engine"
    /\ UNCHANGED <<env, DevelopmentConfig, TestingConfig, ProductionConfig, config, app>>

\* class BaseConfig, lines 72-78.
BaseConfigEngineOptions ==
    /\ pc = "BaseConfig_engine"
    /\ IF base_engine_options.ok
       THEN /\ BaseConfig' = [SQLALCHEMY_ENGINE_OPTIONS |-> base_engine_options.val] @@ BaseConfig
            /\ pc' = "BaseConfig_jwt"
       ELSE /\ pc' = "ValueError"
            /\ UNCHANGED BaseConfig
    /\ UNCHANGED <<env, DevelopmentConfig, TestingConfig, ProductionConfig, config, app>>

\* class BaseConfig, lines 82-83.
BaseConfigJwtExpires ==
    /\ pc = "BaseConfig_jwt"
    /\ LET access == int(getenv_default("JWT_ACCESS_TOKEN_EXPIRES_SECONDS", DefaultAccessExpires))
           refresh == int(getenv_default("JWT_REFRESH_TOKEN_EXPIRES_SECONDS", DefaultRefreshExpires))
       IN  IF access.ok /\ refresh.ok
           THEN /\ BaseConfig' = [JWT_ACCESS_TOKEN_EXPIRES |-> access.val,
                                  JWT_REFRESH_TOKEN_EXPIRES |-> refresh.val,
                                  TESTING |-> FALSE] @@ BaseConfig
                /\ pc' = "DevelopmentConfig"
           ELSE /\ pc' = "ValueError"
                /\ UNCHANGED BaseConfig
    /\ UNCHANGED <<env, DevelopmentConfig, TestingConfig, ProductionConfig, config, app>>

\* class DevelopmentConfig(BaseConfig), lines 112-116: what it does not set it
\* inherits from BaseConfig.
DefineDevelopmentConfig ==
    /\ pc = "DevelopmentConfig"
    /\ DevelopmentConfig' = [SQLALCHEMY_DATABASE_URI |-> development_database_uri] @@ BaseConfig
    /\ pc' = "TestingConfig"
    /\ UNCHANGED <<env, BaseConfig, TestingConfig, ProductionConfig, config, app>>

\* class TestingConfig(BaseConfig), lines 119-129.
DefineTestingConfig ==
    /\ pc = "TestingConfig"
    /\ TestingConfig' = [TESTING |-> TRUE,
                         SQLALCHEMY_DATABASE_URI |-> testing_database_uri,
                         SQLALCHEMY_ENGINE_OPTIONS |-> testing_engine_options,
                         JWT_ACCESS_TOKEN_EXPIRES |-> 60] @@ BaseConfig
    /\ pc' = "ProductionConfig"
    /\ UNCHANGED <<env, BaseConfig, DevelopmentConfig, ProductionConfig, config, app>>

\* class ProductionConfig(BaseConfig), lines 132-142.
DefineProductionConfig ==
    /\ pc = "ProductionConfig"
    /\ IF production_engine_options.ok
       THEN /\ ProductionConfig' = [TESTING |-> FALSE,
                                    SQLALCHEMY_DATABASE_URI |-> production_database_uri,
                                    SQLALCHEMY_ENGINE_OPTIONS |-> production_engine_options.val]
                                   @@ BaseConfig
            /\ pc' = "imported"
       ELSE /\ pc' = "ValueError"
            /\ UNCHANGED ProductionConfig
    /\ UNCHANGED <<env, BaseConfig, DevelopmentConfig, TestingConfig, config, app>>

----------------------------------------------------------------------------
(* get_config, lines 145-155. *)

Production == <<"p","r","o","d","u","c","t","i","o","n">>

\* The mapping of lines 147-154 with its .get default: the class a lowered
\* name selects.
mapping_get(name) ==
    IF name \in {<<"d","e","v","e","l","o","p","m","e","n","t">>, <<"d","e","v">>}
        THEN "DevelopmentConfig"
    ELSE IF name \in {<<"t","e","s","t","i","n","g">>, <<"t","e","s","t">>}
        THEN "TestingConfig"
    ELSE IF name \in {Production, <<"p","r","o","d">>}
        THEN "ProductionConfig"
    ELSE "ProductionConfig"

\* get_config(name): the name of the class returned.
get_config(name) ==
    mapping_get(lower(Or(Or(Or(name, getenv("FLASK_ENV")), getenv("APP_CONFIG")),
                         Some(Production)).val))

\* The attributes of the class of that name.
class_attributes(cls) ==
    IF cls = "DevelopmentConfig" THEN DevelopmentConfig
    ELSE IF cls = "TestingConfig" THEN TestingConfig
    ELSE ProductionConfig

----------------------------------------------------------------------------
(* create_app, src/app/__init__.py lines 6-22.  The statements after the    *)
(* return of line 22 (lines 24-60) are never executed.                     *)

\* The extensions imported on line 2.
Extensions == {"db", "migrate", "bcrypt", "jwt", "ma", "cors", "limiter"}

\* The arguments create_app is called with: no config object, or a class of
\* config.py.
ConfigObjects == {"None", "DevelopmentConfig", "TestingConfig", "ProductionConfig"}

NoApp == [created |-> FALSE]

\* Line 7: app = Flask(__name__, instance_relative_config=True).  A new Flask
\* app has loaded no configuration object and carries no extension.
CreateApp(config_object) ==
    /\ pc = "imported"
    /\ app' = [created |-> TRUE,
               config_object |-> config_object,
               config_loaded |-> <<>>,
               extensions |-> {},
               blueprints |-> 0,
               routes |-> {},
               returned |-> FALSE]
    /\ pc' = "create_app_blueprints"
    /\ UNCHANGED <<env, BaseConfig, DevelopmentConfig, TestingConfig, ProductionConfig, config>>

\* Line 10: register_blueprints(app).
RegisterBlueprints ==
    /\ pc = "create_app_blueprints"
    /\ app' = [app EXCEPT !.blueprints = @ + 1]
    /\ pc' = "create_app_route"
    /\ UNCHANGED <<env, BaseConfig, DevelopmentConfig, TestingConfig, ProductionConfig, config>>

\* Lines 13-19: the health_check view is registered on '/'.
AddHealthCheck ==
    /\ pc = "create_app_route"
    /\ app' = [app EXCEPT !.routes = @ \cup {"/"}]
    /\ pc' = "create_app_return"
    /\ UNCHANGED <<env, BaseConfig, DevelopmentConfig, TestingConfig, ProductionConfig, config>>

\* Line 22: return app.
ReturnApp ==
    /\ pc = "create_app_return"
    /\ app' = [app EXCEPT !.returned = TRUE]
    /\ pc' = "create_app_returned"
    /\ UNCHANGED <<env, BaseConfig, DevelopmentConfig, TestingConfig, ProductionConfig, config>>

----------------------------------------------------------------------------
(* The environments the import is run in. *)

Vars == {"DATABASE_URL", "DATABASE_URI",
         "MYSQLUSER", "MYSQL_USER", "DB_USER",
         "MYSQLPASSWORD", "MYSQL_ROOT_PASSWORD", "MYSQL_PASSWORD", "DB_PASS",
         "MYSQLHOST", "MYSQL_HOST", "DB_HOST",
         "MYSQLPORT", "MYSQL_PORT",
         "MYSQLDATABASE", "MYSQL_DATABASE", "MYSQL_DB", "DB_NAME",
         "TEST_DATABASE_URI",
         "SQLALCHEMY_POOL_SIZE", "SQLALCHEMY_MAX_OVERFLOW", "SQLALCHEMY_POOL_TIMEOUT",
         "JWT_ACCESS_TOKEN_EXPIRES_SECONDS", "JWT_REFRESH_TOKEN_EXPIRES_SECONDS",
         "FLASK_ENV", "APP_CONFIG"}

\* The environment that sets exactly the variables of f.
Environ(f) == [v \in Vars |-> IF v \in DOMAIN f THEN f[v] ELSE None]

Spaces(n) == [i \in 1..n |-> " "]

Pad(s, l, r) == Spaces(l) \o s \o Spaces(r)

\* Direct connection strings before padding.
UrlBases ==
    { <<>>,
      PostgresScheme \o <<"h">>,
      MysqlScheme \o <<"h">>,
      <<"s","q","l","i","t","e",":","/","/","h">>,
      PostgresqlPsycopg2Scheme \o <<"h">>,
      MysqlPymysqlScheme \o <<"h">>,
      <<"x">> \o PostgresScheme \o <<"h">>,
      PostgresScheme \o PostgresScheme \o <<"h">>,
      MysqlScheme \o <<"h"," ">> \o MysqlScheme }

UrlValues == {None} \cup {Some(Pad(b, l, r)) : b \in UrlBases, l \in 0..MaxPad, r \in 0..MaxPad}

UriValues == {None, Some(<<>>), Some(<<" ">>), Some(MysqlScheme \o <<"g">>)}

TestValues == {None, Some(<<>>), Some(<<" ">>),
               Some(<<"s","q","l","i","t","e",":","/","/","t">>),
               Some(PostgresScheme \o <<"t">>)}

\* The value each credential variable carries when it is set and non-empty.
CredValue ==
    [MYSQLUSER |-> <<"b","o","b">>, MYSQL_USER |-> <<"u",":","2">>, DB_USER |-> <<"u","3">>,
     MYSQLPASSWORD |-> <<"p","@","s","s">>, MYSQL_ROOT_PASSWORD |-> <<"r","0","0","t">>,
     MYSQL_PASSWORD |-> <<"p","/","2">>, DB_PASS |-> <<"p","3">>,
     MYSQLHOST |-> <<"h","1">>, MYSQL_HOST |-> <<"h","2">>, DB_HOST |-> <<"h","3">>,
     MYSQLPORT |-> <<"3","3","0","7">>, MYSQL_PORT |-> <<"3","3","0","8">>,
     MYSQLDATABASE |-> <<"s","h","o","p">>, MYSQL_DATABASE |-> <<"d","2">>,
     MYSQL_DB |-> <<"d","3">>, DB_NAME |-> <<"d","4">>]

\* The variables that name each credential field, in config.py or in the
\* documentation.
FieldVars ==
    [user |-> {"MYSQLUSER", "MYSQL_USER", "DB_USER"},
     password |-> {"MYSQLPASSWORD", "MYSQL_ROOT_PASSWORD", "MYSQL_PASSWORD", "DB_PASS"},
     host |-> {"MYSQLHOST", "MYSQL_HOST", "DB_HOST"},
     port |-> {"MYSQLPORT", "MYSQL_PORT"},
     database |-> {"MYSQLDATABASE", "MYSQL_DATABASE", "MYSQL_DB", "DB_NAME"}]

PrimaryVar ==
    [user |-> "MYSQLUSER", password |-> "MYSQLPASSWORD", host |-> "MYSQLHOST",
     port |-> "MYSQLPORT", database |-> "MYSQLDATABASE"]

\* The primary variable of each field of F set.
PrimarySet(F) == [v \in {PrimaryVar[f] : f \in F} |-> Some(CredValue[v])]

\* One field's variables in every combination of unset, empty and set, the
\* other fields unset or set through their primary variable.
CredentialSets ==
    UNION { { t @@ PrimarySet(F) :
                t \in [FieldVars[f] -> {None, Some(<<>>)}]
                      \cup { [v \in FieldVars[f] |-> IF v \in S THEN Some(CredValue[v]) ELSE e[v]] :
                               S \in SUBSET FieldVars[f],
                               e \in [FieldVars[f] -> {None, Some(<<>>)}] },
                F \in SUBSET (DOMAIN FieldVars \ {f}) } :
            f \in DOMAIN FieldVars }

\* A few credential sets: none, complete, and complete but for the password.
CoarseCredentialSets ==
    { <<>>,
      PrimarySet({"user", "password", "host", "database"}),
      PrimarySet({"user", "host", "port", "database"}) }

DigitStrings(n) == UNION { [1..k -> {"0", "1"}] : k \in 1..n }

\* Values of the numeric variables: unset, integers, and strings int() rejects.
NumericValues ==
    {None, Some(<<>>), Some(<<"x">>), Some(<<"1",".","5">>),
     Some(<<" ","7"," ">>), Some(<<"-","1">>), Some(<<"+","2">>), Some(<<"1","_","0">>)}
    \cup {Some(d) : d \in DigitStrings(MaxDigits)}

FewNumericValues == {None, Some(<<"x">>), Some(<<"7">>)}

EnvNames ==
    {None, Some(<<>>),
     Some(<<"d","e","v","e","l","o","p","m","e","n","t">>), Some(<<"d","e","v">>),
     Some(<<"t","e","s","t","i","n","g">>), Some(<<"t","e","s","t">>),
     Some(Production), Some(<<"p","r","o","d">>),
     Some(<<"T","e","s","t","i","n","g">>), Some(<<"s","t","a","g","i","n","g">>)}

\* Direct URLs against credential sets and test URIs.
DirectEnvironments ==
    { Environ([DATABASE_URL |-> u, DATABASE_URI |-> i, TEST_DATABASE_URI |-> t] @@ c) :
        u \in UrlValues, i \in UriValues, t \in TestValues, c \in CoarseCredentialSets }

\* Credential variables, with no direct URL or an empty one.
CredentialEnvironments ==
    { Environ([DATABASE_URL |-> u] @@ c) : u \in {None, Some(<<>>)}, c \in CredentialSets }

\* The numeric overrides.
NumericEnvironments ==
    { Environ([SQLALCHEMY_POOL_SIZE |-> ps, SQLALCHEMY_MAX_OVERFLOW |-> mo,
               SQLALCHEMY_POOL_TIMEOUT |-> pt]) :
        ps \in NumericValues, mo \in NumericValues, pt \in NumericValues }
    \cup
    { Environ([SQLALCHEMY_POOL_SIZE |-> ps, SQLALCHEMY_MAX_OVERFLOW |-> mo,
               SQLALCHEMY_POOL_TIMEOUT |-> pt,
               JWT_ACCESS_TOKEN_EXPIRES_SECONDS |-> ja,
               JWT_REFRESH_TOKEN_EXPIRES_SECONDS |-> jr,
               TEST_DATABASE_URI |-> t]) :
        t \in {None, Some(SqliteMemory)},
        ps \in FewNumericValues, mo \in FewNumericValues, pt \in FewNumericValues,
        ja \in FewNumericValues, jr \in FewNumericValues }

\* The variables that select the configuration class.
NamedEnvironments ==
    { Environ([FLASK_ENV |-> f, APP_CONFIG |-> a, TEST_DATABASE_URI |-> t,
               DATABASE_URL |-> u]) :
        f \in EnvNames, a \in EnvNames, t \in TestValues,
        u \in {None, Some(MysqlScheme \o <<"h">>)} }

Environments ==
    DirectEnvironments \cup CredentialEnvironments \cup NumericEnvironments
        \cup NamedEnvironments

----------------------------------------------------------------------------
(* The program: config.py is imported, then get_config or create_app is     *)
(* called.                                                                 *)

Init ==
    /\ env \in Environments
    /\ pc = "BaseConfig_database"
    /\ BaseConfig = <<>>
    /\ DevelopmentConfig = <<>>
    /\ TestingConfig = <<>>
    /\ ProductionConfig = <<>>
    /\ config = <<>>
    /\ app = NoApp

\* get_config(name), called on the imported module.
GetConfig(name) ==
    /\ pc = "imported"
    /\ config' = [cls |-> get_config(name)] @@ class_attributes(get_config(name))
    /\ pc' = "configured"
    /\ UNCHANGED <<env, BaseConfig, DevelopmentConfig, TestingConfig, ProductionConfig, app>>

Next ==
    \/ BaseConfigDatabaseUrl
    \/ BaseConfigDatabaseFallback
    \/ BaseConfigEngineOptions
    \/ BaseConfigJwtExpires
    \/ DefineDevelopmentConfig
    \/ DefineTestingConfig
    \/ DefineProductionConfig
    \/ \E name \in EnvNames : GetConfig(name)
    \/ \E config_object \in ConfigObjects : CreateApp(config_object)
    \/ RegisterBlueprints
    \/ AddHealthCheck
    \/ ReturnApp

Spec == Init /\ [][Next]_vars

----------------------------------------------------------------------------
(* Positions of the program. *)

\* BaseConfig.DATABASE_URL holds the result of _normalize_database_url.
UrlNormalized == pc = "BaseConfig_fallback"

\* BaseConfig.DATABASE_URL and BaseConfig.SQLALCHEMY_DATABASE_URI are final.
DatabaseResolved == pc \notin {"BaseConfig_database", "BaseConfig_fallback"}

\* config.py was imported without an exception: the four classes exist.
Imported ==
    pc \in {"imported", "configured", "create_app_blueprints", "create_app_route",
            "create_app_return", "create_app_returned"}

\* get_config has returned a class.
Configured == pc = "configured"

----------------------------------------------------------------------------
(* Vocabulary of the claims. *)

\* The direct URL: DATABASE_URL when non-empty, else DATABASE_URI.
DirectUrl ==
    IF Truthy(env["DATABASE_URL"]) THEN env["DATABASE_URL"] ELSE env["DATABASE_URI"]

\* A direct URL is set to a non-empty value.
DirectUrlSet == Truthy(DirectUrl)

\* A direct URL is set to a value that is more than whitespace.
DirectUrlNonBlank == DirectUrlSet /\ \E i \in 1..Len(DirectUrl.val) : DirectUrl.val[i] \notin Whitespace

\* User, password, host and database are all present.
CredentialsComplete ==
    Truthy(mysql_user) /\ Truthy(mysql_password) /\ Truthy(mysql_host) /\ Truthy(mysql_db)

\* The mysql+pymysql string of the credential fields, as they are.
ConstructedUrl ==
    format_mysql_url(mysql_user.val, mysql_password.val, mysql_host.val,
                     mysql_port.val, mysql_db.val)

\* The uri of the three-step resolution, the first step taken when direct holds.
ResolutionOrder(direct) ==
    IF direct THEN normalize_database_url(DirectUrl).val
    ELSE IF CredentialsComplete THEN ConstructedUrl
    ELSE SqliteFallback

\* The base resolution, and the development and production classes that
\* take their uri from it, give the uri u.
BaseUriIs(u) ==
    /\ DatabaseResolved => BaseConfig.SQLALCHEMY_DATABASE_URI = u
    /\ Imported => /\ DevelopmentConfig.SQLALCHEMY_DATABASE_URI = u
                   /\ ProductionConfig.SQLALCHEMY_DATABASE_URI = u
    /\ Configured /\ config.cls # "TestingConfig" => config.SQLALCHEMY_DATABASE_URI = u

PoolVars == {"SQLALCHEMY_POOL_SIZE", "SQLALCHEMY_MAX_OVERFLOW", "SQLALCHEMY_POOL_TIMEOUT"}

JwtVars == {"JWT_ACCESS_TOKEN_EXPIRES_SECONDS", "JWT_REFRESH_TOKEN_EXPIRES_SECONDS"}

\* Every variable of V is absent or set to a value int() accepts.
IntegerValued(V) == \A v \in V : env[v].some => int(env[v].val).ok

----------------------------------------------------------------------------
(* C1 *)

\* C1, as stated: first match wins.  A non-empty direct URL gives the
\* normalized direct URL even with complete credentials; else complete
\* credentials give the constructed string; else the sqlite file.
C1_FirstMatchWins == BaseUriIs(ResolutionOrder(DirectUrlSet))

\* C1, amended: the same order, where a direct URL counts only when it holds
\* a non-whitespace character; a whitespace-only direct URL is treated as no
\* direct URL and resolution goes on to the credentials and the sqlite file.
C1_FirstMatchWinsNonBlank == BaseUriIs(ResolutionOrder(DirectUrlNonBlank))

\* A direct URL and a complete credential set are both present, and the
\* resolved uri is the normalized direct URL.
C1_Witness ==
    /\ DatabaseResolved
    /\ DirectUrlNonBlank
    /\ CredentialsComplete
    /\ BaseConfig.SQLALCHEMY_DATABASE_URI = normalize_database_url(DirectUrl).val
    /\ BaseConfig.SQLALCHEMY_DATABASE_URI # ConstructedUrl

----------------------------------------------------------------------------
(* C2 *)

\* urllib.parse.quote(c, safe=""): the percent-encoding of one character.
QuoteChar(c) ==
    CASE c = "@" -> <<"%","4","0">>
      [] c = ":" -> <<"%","3","A">>
      [] c = "/" -> <<"%","2","F">>
      [] c = " " -> <<"%","2","0">>
      [] c = "%" -> <<"%","2","5">>
      [] OTHER -> <<c>>

RECURSIVE Quote(_)
Quote(s) == IF s = <<>> THEN <<>> ELSE QuoteChar(Head(s)) \o Quote(Tail(s))

\* C2: with a complete credential set and no direct URL, the constructed URL
\* is mysql+pymysql://<quoted user>:<quoted password>@<host>:<port>/<database>,
\* the port 3306 when absent.
C2_PercentEncoded ==
    DatabaseResolved /\ ~DirectUrlSet /\ CredentialsComplete
        => BaseConfig.DATABASE_URL =
               Some(format_mysql_url(Quote(mysql_user.val), Quote(mysql_password.val),
                                     mysql_host.val, mysql_port.val, mysql_db.val))

----------------------------------------------------------------------------
(* C3 *)

\* C3: the uri of every configuration get_config returns is non-empty and is
\* a direct connection string (DATABASE_URL, DATABASE_URI or
\* TEST_DATABASE_URI, normalized or not), the constructed string, or a sqlite
\* fallback.
C3_UriNonEmpty ==
    Configured =>
        /\ config.SQLALCHEMY_DATABASE_URI # <<>>
        /\ \/ DirectUrlSet /\ config.SQLALCHEMY_DATABASE_URI = normalize_database_url(DirectUrl).val
           \/ env["TEST_DATABASE_URI"].some
                  /\ config.SQLALCHEMY_DATABASE_URI = env["TEST_DATABASE_URI"].val
           \/ CredentialsComplete /\ config.SQLALCHEMY_DATABASE_URI = ConstructedUrl
           \/ config.SQLALCHEMY_DATABASE_URI \in {SqliteFallback, SqliteMemory}

----------------------------------------------------------------------------
(* C4 *)

\* The pool of the selected class is one connection with no overflow.
MinimalPool ==
    /\ config.SQLALCHEMY_ENGINE_OPTIONS.pool_size = 1
    /\ config.SQLALCHEMY_ENGINE_OPTIONS.max_overflow = 0

\* C4, as stated: in testing a present TEST_DATABASE_URI is the uri and the
\* pool is minimal; the override takes effect only when the variable is
\* present, so without it the uri is that of the base resolution.
C4_TestUriLayered ==
    Configured /\ config.cls = "TestingConfig" =>
        /\ env["TEST_DATABASE_URI"].some =>
               /\ config.SQLALCHEMY_DATABASE_URI = env["TEST_DATABASE_URI"].val
               /\ MinimalPool
        /\ ~env["TEST_DATABASE_URI"].some =>
               config.SQLALCHEMY_DATABASE_URI = BaseConfig.SQLALCHEMY_DATABASE_URI

\* C4, amended: in testing a present TEST_DATABASE_URI is the uri, whatever
\* the direct URL and the credentials; without it the uri is
\* sqlite:///:memory:, never the base resolution; the pool is minimal in both
\* cases, whatever the numeric overrides.
C4_TestUriOrMemory ==
    Configured /\ config.cls = "TestingConfig" =>
        /\ env["TEST_DATABASE_URI"].some =>
               config.SQLALCHEMY_DATABASE_URI = env["TEST_DATABASE_URI"].val
        /\ ~env["TEST_DATABASE_URI"].some =>
               config.SQLALCHEMY_DATABASE_URI = SqliteMemory
        /\ MinimalPool

\* Testing was selected with a test URI, a direct URL and complete
\* credentials all present.
C4_Witness ==
    /\ Configured
    /\ config.cls = "TestingConfig"
    /\ Truthy(env["TEST_DATABASE_URI"])
    /\ DirectUrlNonBlank
    /\ CredentialsComplete
    /\ config.SQLALCHEMY_DATABASE_URI = env["TEST_DATABASE_URI"].val

----------------------------------------------------------------------------
(* C5 *)

\* The options of a class are the integers of the variables that are set.
OptionsFromEnv(options) ==
    /\ env["SQLALCHEMY_POOL_SIZE"].some
           => options.pool_size = int(env["SQLALCHEMY_POOL_SIZE"].val).val
    /\ env["SQLALCHEMY_MAX_OVERFLOW"].some
           => options.max_overflow = int(env["SQLALCHEMY_MAX_OVERFLOW"].val).val
    /\ env["SQLALCHEMY_POOL_TIMEOUT"].some
           => options.pool_timeout = int(env["SQLALCHEMY_POOL_TIMEOUT"].val).val

\* A malformed pool variable stops the import at the engine options: no class
\* is completed, no configuration is returned, and no default stands in for
\* the value.
MalformedPoolVarIsFatal ==
    /\ ~IntegerValued(PoolVars) =>
           /\ pc \in {"BaseConfig_database", "BaseConfig_fallback", "BaseConfig_engine",
                      "ValueError"}
           /\ config = <<>>
           /\ ProductionConfig = <<>>
    /\ pc \in {"BaseConfig_jwt", "DevelopmentConfig", "TestingConfig", "ProductionConfig"}
           => OptionsFromEnv(BaseConfig.SQLALCHEMY_ENGINE_OPTIONS)
    /\ Imported => OptionsFromEnv(ProductionConfig.SQLALCHEMY_ENGINE_OPTIONS)

\* C5, as stated: a malformed pool variable is fatal, and with the three pool
\* variables absent or integer-valued the import never fails.
C5_OnlyPoolVarsFail ==
    /\ MalformedPoolVarIsFatal
    /\ IntegerValued(PoolVars) => pc # "ValueError"

\* C5, amended: a malformed pool variable is fatal, and with the three pool
\* variables and the two JWT expiry variables absent or integer-valued the
\* import never fails.
C5_OnlyNumericVarsFail ==
    /\ MalformedPoolVarIsFatal
    /\ IntegerValued(PoolVars \cup JwtVars) => pc # "ValueError"

\* The import has failed on a malformed pool variable.
C5_Witness ==
    /\ pc = "ValueError"
    /\ ~IntegerValued(PoolVars)
    /\ IntegerValued(JwtVars)

----------------------------------------------------------------------------
(* C6 *)

\* out is u with only a leading postgres:// or mysql:// rewritten.
SchemeRewritten(u, out) ==
    IF startswith(u, PostgresScheme)
        THEN out = PostgresqlPsycopg2Scheme \o SubSeq(u, Len(PostgresScheme) + 1, Len(u))
    ELSE IF startswith(u, MysqlScheme)
        THEN out = MysqlPymysqlScheme \o SubSeq(u, Len(MysqlScheme) + 1, Len(u))
    ELSE out = u

\* C6, as stated: the normalized URL is the direct URL with only a leading
\* scheme rewritten, any other URL is unmodified, and normalizing the result
\* again changes nothing.
C6_SchemeOnly ==
    UrlNormalized /\ DirectUrlSet =>
        /\ BaseConfig.DATABASE_URL.some
        /\ SchemeRewritten(DirectUrl.val, BaseConfig.DATABASE_URL.val)
        /\ normalize_database_url(BaseConfig.DATABASE_URL) = BaseConfig.DATABASE_URL

\* C6, amended: the normalized URL is the direct URL stripped of surrounding
\* whitespace, with only a leading scheme rewritten; any other URL is changed
\* by the stripping alone; and normalizing a non-empty result again changes
\* nothing (a whitespace-only URL normalizes to "", which normalizes to None).
C6_StripThenSchemeOnly ==
    UrlNormalized /\ DirectUrlSet =>
        /\ BaseConfig.DATABASE_URL.some
        /\ SchemeRewritten(strip(DirectUrl.val), BaseConfig.DATABASE_URL.val)
        /\ BaseConfig.DATABASE_URL.val # <<>>
               => normalize_database_url(BaseConfig.DATABASE_URL) = BaseConfig.DATABASE_URL
        /\ BaseConfig.DATABASE_URL.val = <<>>
               => normalize_database_url(BaseConfig.DATABASE_URL) = None

\* A postgres:// URL with whitespace around it has been normalized.
C6_Witness ==
    /\ UrlNormalized
    /\ DirectUrlSet
    /\ DirectUrl.val # strip(DirectUrl.val)
    /\ startswith(strip(DirectUrl.val), PostgresScheme)
    /\ startswith(BaseConfig.DATABASE_URL.val, PostgresqlPsycopg2Scheme)

----------------------------------------------------------------------------
(* C7 *)

\* No direct URL is set: both variables are absent or empty.
NoDirectUrl == ~Truthy(env["DATABASE_URL"]) /\ ~Truthy(env["DATABASE_URI"])

\* C7: with no direct URL and an incomplete credential set, no URL is
\* constructed, the uri is the sqlite file, and the import does not fail
\* (unless a numeric variable is malformed).
C7_IncompleteFallsBack ==
    NoDirectUrl /\ ~CredentialsComplete =>
        /\ DatabaseResolved => BaseConfig.DATABASE_URL = None
        /\ BaseUriIs(SqliteFallback)
        /\ IntegerValued(PoolVars \cup JwtVars) => pc # "ValueError"

\* Some but not all credential fields are present, and the import has
\* completed with the sqlite file as uri.
C7_Witness ==
    /\ Imported
    /\ NoDirectUrl
    /\ Truthy(mysql_user) /\ Truthy(mysql_host) /\ Truthy(mysql_db)
    /\ ~Truthy(mysql_password)
    /\ ProductionConfig.SQLALCHEMY_DATABASE_URI = SqliteFallback

----------------------------------------------------------------------------
(* C8 *)

RECURSIVE FirstNonEmpty(_)
\* The first non-empty variable of a list of names, None when there is none.
FirstNonEmpty(names) ==
    IF names = <<>> THEN None
    ELSE IF Truthy(env[Head(names)]) THEN env[Head(names)]
    ELSE FirstNonEmpty(Tail(names))

DocumentedUser == FirstNonEmpty(<<"MYSQLUSER", "MYSQL_USER", "DB_USER">>)

DocumentedPassword ==
    FirstNonEmpty(<<"MYSQLPASSWORD", "MYSQL_ROOT_PASSWORD", "MYSQL_PASSWORD", "DB_PASS">>)

DocumentedHost == FirstNonEmpty(<<"MYSQLHOST", "MYSQL_HOST", "DB_HOST">>)

DocumentedPort == Or(FirstNonEmpty(<<"MYSQLPORT", "MYSQL_PORT">>), Some(DefaultPort))

DocumentedDatabase == FirstNonEmpty(<<"MYSQLDATABASE", "MYSQL_DATABASE", "DB_NAME">>)

\* C8: with no direct URL, a credential set that is complete under the
\* documented alias lists yields the URL constructed from the first non-empty
\* variable of each list.
C8_DocumentedAliases ==
    /\ DatabaseResolved
    /\ NoDirectUrl
    /\ Truthy(DocumentedUser) /\ Truthy(DocumentedPassword)
    /\ Truthy(DocumentedHost) /\ Truthy(DocumentedDatabase)
    => BaseConfig.DATABASE_URL =
           Some(format_mysql_url(DocumentedUser.val, DocumentedPassword.val,
                                 DocumentedHost.val, DocumentedPort.val,
                                 DocumentedDatabase.val))

----------------------------------------------------------------------------
(* C9 *)

\* No numeric override of the pool is set.
NoPoolOverride == \A v \in PoolVars : ~env[v].some

\* In production each option is the integer of its own variable when that is
\* set, and its default otherwise, whatever the other two variables are.
IndependentlyOverridable ==
    LET options == ProductionConfig.SQLALCHEMY_ENGINE_OPTIONS
    IN  /\ OptionsFromEnv(options)
        /\ ~env["SQLALCHEMY_POOL_SIZE"].some => options.pool_size = 10
        /\ ~env["SQLALCHEMY_MAX_OVERFLOW"].some => options.max_overflow = 20
        /\ ~env["SQLALCHEMY_POOL_TIMEOUT"].some => options.pool_timeout = 30

\* C9, as stated: without overrides each production default is strictly
\* larger than the development one, and the three are independently
\* overridable.
C9_AllDefaultsLarger ==
    Imported =>
        /\ NoPoolOverride =>
               \A k \in PoolKeys :
                   ProductionConfig.SQLALCHEMY_ENGINE_OPTIONS[k]
                       > DevelopmentConfig.SQLALCHEMY_ENGINE_OPTIONS[k]
        /\ IndependentlyOverridable

\* C9, amended: without overrides production's pool size and max overflow
\* are strictly larger than development's and the pool timeout is the same
\* (30), and the three are independently overridable.
C9_SizeAndOverflowLarger ==
    Imported =>
        /\ NoPoolOverride =>
               /\ ProductionConfig.SQLALCHEMY_ENGINE_OPTIONS.pool_size
                      > DevelopmentConfig.SQLALCHEMY_ENGINE_OPTIONS.pool_size
               /\ ProductionConfig.SQLALCHEMY_ENGINE_OPTIONS.max_overflow
                      > DevelopmentConfig.SQLALCHEMY_ENGINE_OPTIONS.max_overflow
               /\ ProductionConfig.SQLALCHEMY_ENGINE_OPTIONS.pool_timeout
                      = DevelopmentConfig.SQLALCHEMY_ENGINE_OPTIONS.pool_timeout
        /\ IndependentlyOverridable

\* Only the pool size is overridden, and production's other two options are
\* at their defaults.
C9_Witness ==
    /\ Imported
    /\ env["SQLALCHEMY_POOL_SIZE"].some
    /\ ~env["SQLALCHEMY_MAX_OVERFLOW"].some
    /\ ~env["SQLALCHEMY_POOL_TIMEOUT"].some
    /\ ProductionConfig.SQLALCHEMY_ENGINE_OPTIONS.pool_size = 11
    /\ ProductionConfig.SQLALCHEMY_ENGINE_OPTIONS.max_overflow = 20
    /\ ProductionConfig.SQLALCHEMY_ENGINE_OPTIONS.pool_timeout = 30

----------------------------------------------------------------------------
(* C10 *)

\* C10: an app create_app has returned has loaded its configuration (the
\* default one, then config_object when one is given) and carries the seven
\* extensions.
C10_ReturnedAppIsWired ==
    app.created /\ app.returned =>
        /\ app.config_loaded # <<>>
        /\ app.config_object # "None"
               => app.config_loaded[Len(app.config_loaded)] = app.config_object
        /\ app.extensions = Extensions

====
